---- MODULE Spec2Model ----
(***************************************************************************)
(* A model of organizer/crawlers.py: the Crawler (account and region       *)
(* selection, credential loading, payload execution over the accounts x    *)
(* regions cross product by a pool of worker threads, request history),    *)
(* CrawlerRequest.handle_errors and CrawlerTimer.                          *)
(***************************************************************************)
EXTENDS Integers, Sequences, FiniteSets, TLC

VARIABLES
    crawler,      \* "unbuilt" | "live" | "failed": whether Crawler.__init__ produced an object
    access_role,  \* Crawler.access_role
    accounts,     \* Crawler.accounts: sequence of account names (resolved OrgAccounts)
    regions,      \* Crawler.regions: a Python value (str, list, or whatever was assigned)
    requests,     \* Crawler.requests: sequence of CrawlerRequest records
    error,        \* Crawler.error: <<>> for None, else the formatted message parts
    exc_info,     \* Crawler.exc_info: <<>> for None, else <<type, message>>
    pc,           \* the calling thread: "idle" | "execute" | "load"
    request,      \* the CrawlerRequest of the execute call in progress
    queue,        \* items of the thread pool's queue not yet taken
    workers,      \* the pool's threads: [pc, item, response]
    ret,          \* how the last finished call ended
    stderr,       \* what handle_errors printed last: [n, name]
    clock,        \* the next value of time.perf_counter()
    spawned,      \* number of pool threads started so far
    executed,     \* history variable: the request and thread count of every execute call that ended
    loaded,       \* history variable: the load_credentials outcomes of the current
                  \* (or last) load_account_credentials call: [account, exc]
    timer         \* a CrawlerTimer used on its own

vars == <<crawler, access_role, accounts, regions, requests, error, exc_info,
          pc, request, queue, workers, ret, stderr, clock, spawned, executed, loaded,
          timer>>

-----------------------------------------------------------------------------
(* Bounds of the model *)

MaxRegionsLen == 2      \* longest list handed to the regions option / update_regions
MaxSpawn == 4           \* pool threads started in one behaviour, over all calls
MaxClock == 3           \* perf_counter values are 0 .. MaxClock
ZeroReads == 2          \* perf_counter returns 0 at most ZeroReads times in a row
MaxTick == 6            \* perf_counter values for a timer used on its own are 0 .. MaxTick

-----------------------------------------------------------------------------
(* Python values: every value is a record [t, v, n] so that values of      *)
(* different Python types stay comparable.                                  *)

None == [t |-> "none", v |-> <<>>, n |-> 0]
Str(s) == [t |-> "str", v |-> <<s>>, n |-> 0]
List(q) == [t |-> "list", v |-> q, n |-> 0]
IntV(k) == [t |-> "int", v |-> <<>>, n |-> k]
Acct(a) == [t |-> "acct", v |-> <<a>>, n |-> 0]      \* an orgs.OrgAccount object

\* Python truthiness, as used by `x or default` and `if x:`
Truthy(x) ==
    CASE x.t = "none" -> FALSE
      [] x.t = "str"  -> x.v[1] # ""
      [] x.t = "list" -> x.v # <<>>
      [] x.t = "int"  -> x.n # 0
      [] x.t = "acct" -> TRUE

NoExc == <<>>

SeqsUpTo(S, n) == UNION {[1..k -> S] : k \in 0..n}

Range(q) == {q[i] : i \in 1..Len(q)}

-----------------------------------------------------------------------------
(* The collaborators: the organization and the region registry *)

DEFAULT_REGION == "us-east-1"

all_regions == <<"us-east-1", "us-west-2">>

OrgAccounts == <<"a1", "a2">>

OrgAccessRole == "OrgRole"

RegionNames == Range(all_regions) \cup {"mars-west-1", "GLOBAL"}

\* org.get_account(a): the account reference, or a failure for an unknown name
get_account(a) ==
    IF a \in Range(OrgAccounts) THEN [val |-> a, exc |-> NoExc]
    ELSE [val |-> a, exc |-> <<"NotFoundError", a>>]

-----------------------------------------------------------------------------
(* Crawler.validate_accounts and Crawler.validate_regions, as functions    *)
(* from the attribute's value to its new value and the exception raised.   *)

validate_accounts(a) ==
    LET a1 == IF a.t = "str" \/ a.t = "acct" THEN List(a.v) ELSE a
    IN  IF a1.t # "list"
        THEN [val |-> a1, exc |-> <<"ValueError", "accounts must be str, list or OrgAccount">>]
        ELSE LET missing == SelectSeq(a1.v, LAMBDA x: get_account(x).exc # NoExc)
             IN  IF missing # <<>>
                 THEN [val |-> a1, exc |-> get_account(missing[1]).exc]
                 ELSE [val |-> a1, exc |-> NoExc]

\* validate_regions naming every region of the input in its message
validate_regions_list_all(r) ==
    IF r = Str("GLOBAL")
    THEN [val |-> List(<<DEFAULT_REGION>>), exc |-> NoExc]
    ELSE LET r1 == IF r.t = "str" THEN List(r.v) ELSE r
         IN  IF r1.t # "list"
             THEN [val |-> r1, exc |-> <<"ValueError", "regions must be list or str">>]
             ELSE IF \E i \in DOMAIN r1.v : r1.v[i] \notin Range(all_regions)
             THEN [val |-> r1, exc |-> <<"ValueError", "Invalid regions">> \o r1.v]
             ELSE [val |-> r1, exc |-> NoExc]

\* validate_regions without the GLOBAL selector
validate_regions_no_global(r) ==
    LET r1 == IF r.t = "str" THEN List(r.v) ELSE r
    IN  IF r1.t # "list"
        THEN [val |-> r1, exc |-> <<"ValueError", "regions must be list or str">>]
        ELSE LET no_such_regions ==
                     SelectSeq(r1.v, LAMBDA x: x \notin Range(all_regions))
             IN  IF no_such_regions # <<>>
                 THEN [val |-> r1,
                       exc |-> <<"ValueError", "Invalid regions">> \o no_such_regions]
                 ELSE [val |-> r1, exc |-> NoExc]

validate_regions(r) ==
    IF r = Str("GLOBAL")
    THEN [val |-> List(<<DEFAULT_REGION>>), exc |-> NoExc]
    ELSE LET r1 == IF r.t = "str" THEN List(r.v) ELSE r
         IN  IF r1.t # "list"
             THEN [val |-> r1, exc |-> <<"ValueError", "regions must be list or str">>]
             ELSE LET no_such_regions ==
                          SelectSeq(r1.v, LAMBDA x: x \notin Range(all_regions))
                  IN  IF no_such_regions # <<>>
                      THEN [val |-> r1,
                            exc |-> <<"ValueError", "Invalid regions">> \o no_such_regions]
                      ELSE [val |-> r1, exc |-> NoExc]

-----------------------------------------------------------------------------
(* Inputs *)

RegionInputs ==
    {None, IntV(0), IntV(7), Str("")}
    \cup {Str(s) : s \in RegionNames}
    \cup {List(q) : q \in SeqsUpTo(RegionNames, MaxRegionsLen)}

AccountInputs ==
    {None, IntV(0), IntV(7), Str("a1"), Str("zz"), Acct("a2"),
     List(<<"a1">>), List(<<"a2", "a1">>), List(<<"a1", "zz">>)}

RoleInputs == {None, Str(""), Str("Admin")}

\* How a call ended: returned (id: the request returned, 0 for None), raised exc,
\* or left through sys.exit (exc: what was handed to exit or to the excepthook).
\* arg keeps the call's argument (for __init__ the regions option, and acc the
\* accounts option).
NoRet == [op |-> "", arg |-> None, acc |-> None, kind |-> "", exc |-> NoExc, id |-> 0]
Returned(op, arg, id) ==
    [op |-> op, arg |-> arg, acc |-> None, kind |-> "return", exc |-> NoExc, id |-> id]
Raised(op, arg, e) ==
    [op |-> op, arg |-> arg, acc |-> None, kind |-> "raise", exc |-> e, id |-> 0]
Exited(op, arg, e) ==
    [op |-> op, arg |-> arg, acc |-> None, kind |-> "exit", exc |-> e, id |-> 0]

NewTimer == [start_time |-> -1, end_time |-> -1, elapsed_time |-> -1]
NoRequest == [id |-> 0, payload |-> "", name |-> "", responses |-> <<>>,
              errors |-> "None", timer |-> NewTimer]
NoStderr == [n |-> -1, name |-> ""]

-----------------------------------------------------------------------------
(* Crawler.__init__ *)

Unbuilt ==
    /\ crawler = "unbuilt"
    /\ access_role = ""
    /\ accounts = <<>>
    /\ regions = None
    /\ requests = <<>>
    /\ error = <<>>
    /\ exc_info = <<>>
    /\ pc = "idle"
    /\ request = NoRequest
    /\ queue = <<>>
    /\ workers = <<>>
    /\ ret = NoRet
    /\ stderr = NoStderr
    /\ clock = 0
    /\ spawned = 0
    /\ executed = <<>>
    /\ loaded = <<>>
    /\ timer = NewTimer

\* The attributes after Crawler(org, access_role=kr, accounts=ka, regions=kreg)
\* (an option that is omitted reads as None from kwargs.get)
Constructed(kr, ka, kreg) ==
    LET role == IF Truthy(kr) THEN kr.v[1] ELSE OrgAccessRole
        va == validate_accounts(IF Truthy(ka) THEN ka ELSE List(OrgAccounts))
        vr == validate_regions(IF Truthy(kreg) THEN kreg ELSE List(all_regions))
    IN  IF va.exc # NoExc THEN [ok |-> FALSE, exc |-> va.exc, role |-> role,
                                accounts |-> <<>>, regions |-> None]
        ELSE IF vr.exc # NoExc THEN [ok |-> FALSE, exc |-> vr.exc, role |-> role,
                                     accounts |-> <<>>, regions |-> None]
        ELSE [ok |-> TRUE, exc |-> NoExc, role |-> role,
              accounts |-> va.val.v, regions |-> vr.val]

Construct(kr, ka, kreg) ==
    LET c == Constructed(kr, ka, kreg)
    IN  /\ crawler = "unbuilt"
        /\ IF c.ok
           THEN /\ crawler' = "live"
                /\ access_role' = c.role
                /\ accounts' = c.accounts
                /\ regions' = c.regions
                /\ ret' = [Returned("__init__", kreg, 0) EXCEPT !.acc = ka]
           ELSE /\ crawler' = "failed"
                /\ ret' = [Raised("__init__", kreg, c.exc) EXCEPT !.acc = ka]
                /\ UNCHANGED <<access_role, accounts, regions>>
        /\ UNCHANGED <<requests, error, exc_info, pc, request, queue, workers,
                       stderr, clock, spawned, executed, loaded, timer>>

(* Crawler.update_regions: the assignment, then validate_regions *)
update_regions(r) ==
    LET vr == validate_regions(r)
    IN  /\ crawler = "live"
        /\ pc = "idle"
        /\ regions' = vr.val
        /\ ret' = IF vr.exc = NoExc THEN Returned("update_regions", r, 0)
                  ELSE Raised("update_regions", r, vr.exc)
        /\ UNCHANGED <<crawler, access_role, accounts, requests, error, exc_info,
                       pc, request, queue, workers, stderr, clock, spawned, executed, loaded, timer>>

DoConstruct == \E kr \in RoleInputs, ka \in AccountInputs, kreg \in RegionInputs :
                   Construct(kr, ka, kreg)

DoUpdateRegions == \E r \in RegionInputs : update_regions(r)

NextConfig == DoConstruct \/ DoUpdateRegions

SpecConfig == Unbuilt /\ [][NextConfig]_vars

-----------------------------------------------------------------------------
(* CrawlerTimer: None is -1, perf_counter() values are 0 .. MaxClock *)

timer_start(t, now) == [t EXCEPT !.start_time = now]

\* `if self.start_time:` is false for None and for 0
Started(t) == t.start_time # -1 /\ t.start_time # 0

timer_stop(t, now) ==
    IF Started(t)
    THEN [t EXCEPT !.end_time = now, !.elapsed_time = now - t.start_time]
    ELSE t

\* the clock after a perf_counter() call: monotonic, saturating at MaxClock
AfterRead(c) == IF c < MaxClock THEN c + 1 ELSE c

\* time.perf_counter(): monotonic, not strictly, so that successive calls may
\* return the same value; a repeated value matters to the timer only at 0, and a
\* clock below 0 stands for a clock that reads 0 until it has reached 0
perf_counter == IF clock < 0 THEN 0 ELSE clock

\* A CrawlerTimer on its own: start() and stop() in any order, time passing
\* between the calls
TimerStart ==
    /\ timer' = timer_start(timer, perf_counter)
    /\ ret' = Returned("start", None, 0)
    /\ UNCHANGED <<crawler, access_role, accounts, regions, requests, error, exc_info,
                   pc, request, queue, workers, stderr, clock, spawned, executed, loaded>>

TimerStop ==
    /\ timer' = timer_stop(timer, perf_counter)
    /\ ret' = Returned("stop", None, 0)
    /\ UNCHANGED <<crawler, access_role, accounts, regions, requests, error, exc_info,
                   pc, request, queue, workers, stderr, clock, spawned, executed, loaded>>

Tick ==
    /\ clock < MaxTick
    /\ clock' = clock + 1
    /\ UNCHANGED <<crawler, access_role, accounts, regions, requests, error, exc_info,
                   pc, request, queue, workers, ret, stderr, spawned, executed, loaded,
                   timer>>

NextTimer == TimerStart \/ TimerStop \/ Tick

SpecTimer == Unbuilt /\ [][NextTimer]_vars

-----------------------------------------------------------------------------
(* Payloads: functions of (region, account); two of them share a __name__ *)

Payloads == {"pOk", "pNone", "pFail"}

payload_name(p) == IF p = "pFail" THEN "g" ELSE "f"

\* pOk returns a value, pNone returns None, pFail raises in us-west-2
payload_call(p, region, account) ==
    CASE p = "pOk"   -> [out |-> <<"out", region, account>>, exc |-> NoExc]
      [] p = "pNone" -> [out |-> <<>>, exc |-> NoExc]
      [] p = "pFail" -> IF region = "us-west-2"
                        THEN [out |-> <<>>, exc |-> <<"RuntimeError", region, account>>]
                        ELSE [out |-> <<"out", region, account>>, exc |-> NoExc]

-----------------------------------------------------------------------------
(* CrawlerRequest, CrawlerResponse *)

CrawlerRequest(p, id) ==
    [id |-> id, payload |-> p, name |-> payload_name(p), responses |-> <<>>,
     errors |-> "None", timer |-> NewTimer]

CrawlerResponse(region, account) ==
    [region |-> region, account |-> account, payload_output |-> <<>>,
     timer |-> NewTimer, exc_info |-> NoExc]

NoItem == [account |-> "", region |-> ""]
IdleWorker == [pc |-> "idle", item |-> NoItem, response |-> CrawlerResponse("", "")]

\* CrawlerRequest.handle_errors: the count it prints, the name, the exc_info it
\* shows; errors.pop() on an empty list raises IndexError before anything is printed
handle_errors(req) ==
    LET errors == SelectSeq(req.responses, LAMBDA r : r.exc_info # NoExc)
        rest == SubSeq(errors, 1, Len(errors) - 1)
    IN  IF errors = <<>>
        THEN [raised |-> TRUE, n |-> -1, name |-> req.name,
              exc_info |-> <<"IndexError", "pop from empty list">>]
        ELSE [raised |-> FALSE, n |-> Len(rest), name |-> req.name,
              exc_info |-> errors[Len(errors)].exc_info]

-----------------------------------------------------------------------------
(* Crawler.execute *)

\* accounts and regions paired position by position instead of crossed
accounts_and_regions_zip(accs, regs) ==
    [k \in 1..(IF Len(accs) < Len(regs) THEN Len(accs) ELSE Len(regs)) |->
        [account |-> accs[k], region |-> regs[k]]]

\* the list built by the nested loops: for region in regions: for account in accounts
accounts_and_regions(accs, regs) ==
    [k \in 1..(Len(regs) * Len(accs)) |->
        [account |-> accs[((k - 1) % Len(accs)) + 1],
         region |-> regs[((k - 1) \div Len(accs)) + 1]]]

\* run_payload_in_account, lines 97-98: a new response with its timer started
new_response(item, now) ==
    [CrawlerResponse(item.region, item.account) EXCEPT !.timer = timer_start(@, now)]

\* run_payload_in_account losing the payload's return value
run_payload_no_output(p, r, now) ==
    LET res == payload_call(p, r.region, r.account)
        r1 == IF res.exc = NoExc THEN r ELSE [r EXCEPT !.exc_info = res.exc]
    IN  [r1 EXCEPT !.timer = timer_stop(@, now)]

\* run_payload_in_account, lines 99-104: the payload call, the capture, timer.stop()
run_payload(p, r, now) ==
    LET res == payload_call(p, r.region, r.account)
        r1 == IF res.exc = NoExc THEN [r EXCEPT !.payload_output = res.out]
              ELSE [r EXCEPT !.exc_info = res.exc]
    IN  [r1 EXCEPT !.timer = timer_stop(@, now)]

\* a captured failure that leaves the request's error flag alone
set_errors_never(req, r) == req

\* run_payload_in_account, line 103
set_errors(req, r) == IF r.exc_info # NoExc THEN [req EXCEPT !.errors = "True"] ELSE req

\* an append that is not atomic: the update is lost when another thread is
\* about to append too
append_response_lost(req, r) ==
    IF \E j \in DOMAIN workers : workers[j].pc = "ran" /\ workers[j].response # r
    THEN req
    ELSE [req EXCEPT !.responses = Append(@, r)]

\* an append skipped for a successful response once a failure was captured
append_response_unless_errors(req, r) ==
    IF req.errors = "True" /\ r.exc_info = NoExc
    THEN req
    ELSE [req EXCEPT !.responses = Append(@, r)]

\* run_payload_in_account, line 105
append_response(req, r) == [req EXCEPT !.responses = Append(@, r)]

\* line 111; tc = 0 stands for a call without the thread_count option
thread_count(tc) == IF tc = 0 THEN Len(accounts) ELSE tc

ExecuteCall(p, tc) ==
    /\ crawler = "live"
    /\ pc = "idle"
    /\ spawned + thread_count(tc) <= MaxSpawn
    /\ IF regions.t # "list"
       THEN \* `for region in self.regions` on a value that is not iterable
            /\ ret' = Raised("execute", Str(p), <<"TypeError", "not iterable">>)
            /\ UNCHANGED <<pc, request, queue, workers, clock, spawned>>
       ELSE /\ pc' = "execute"
            /\ request' = [CrawlerRequest(p, Len(executed) + 1)
                               EXCEPT !.timer = timer_start(@, perf_counter)]
            /\ clock' = AfterRead(clock)
            /\ queue' = accounts_and_regions(accounts, regions.v)
            /\ workers' = [i \in 1..thread_count(tc) |-> IdleWorker]
            /\ spawned' = spawned + thread_count(tc)
            /\ ret' = NoRet
    /\ UNCHANGED <<crawler, access_role, accounts, regions, requests, error, exc_info,
                   stderr, executed, loaded, timer>>

\* A pool thread takes the next item and starts run_payload_in_account on it.
\* The threads of a pool are interchangeable, so the idle thread of lowest index
\* stands for whichever idle thread takes the item.
WorkerGet(i) ==
    /\ pc = "execute"
    /\ i \in DOMAIN workers
    /\ workers[i].pc = "idle"
    /\ \A j \in 1..(i - 1) : workers[j].pc # "idle"
    /\ queue # <<>>
    /\ workers' = [workers EXCEPT ![i] = [pc |-> "got", item |-> Head(queue),
                                          response |-> new_response(Head(queue), perf_counter)]]
    /\ queue' = Tail(queue)
    /\ clock' = AfterRead(clock)
    /\ UNCHANGED <<crawler, access_role, accounts, regions, requests, error, exc_info,
                   pc, request, ret, stderr, spawned, executed, loaded, timer>>

WorkerRun(i) ==
    /\ pc = "execute"
    /\ i \in DOMAIN workers
    /\ workers[i].pc = "got"
    /\ LET r == run_payload(request.payload, workers[i].response, perf_counter)
       IN  /\ workers' = [workers EXCEPT ![i].pc = "ran", ![i].response = r]
           /\ request' = set_errors(request, r)
           /\ clock' = IF Started(workers[i].response.timer) THEN AfterRead(clock) ELSE clock
    /\ UNCHANGED <<crawler, access_role, accounts, regions, requests, error, exc_info,
                   pc, queue, ret, stderr, spawned, executed, loaded, timer>>

WorkerAppend(i) ==
    /\ pc = "execute"
    /\ i \in DOMAIN workers
    /\ workers[i].pc = "ran"
    /\ request' = append_response(request, workers[i].response)
    /\ workers' = [workers EXCEPT ![i] = IdleWorker]
    /\ UNCHANGED <<crawler, access_role, accounts, regions, requests, error, exc_info,
                   pc, queue, ret, stderr, clock, spawned, executed, loaded, timer>>

\* queue_threads has returned: every item was taken and every worker is done
Joined == pc = "execute" /\ queue = <<>> /\ \A i \in DOMAIN workers : workers[i].pc = "idle"

\* the new request put in front of the history
history_prepend(reqs, req) == <<req>> \o reqs

\* line 123: self.requests.append(request)
history_append(reqs, req) == Append(reqs, req)

\* lines 120-124
ExecuteFinish ==
    /\ Joined
    /\ LET req == [request EXCEPT !.timer = timer_stop(@, perf_counter)]
           h == handle_errors(req)
       IN  /\ clock' = IF Started(request.timer) THEN AfterRead(clock) ELSE clock
           /\ executed' = Append(executed, [req |-> req, tc |-> Len(workers)])
           /\ IF req.errors = "True" /\ h.raised
              THEN /\ ret' = Raised("execute", Str(req.payload), h.exc_info)
                   /\ UNCHANGED <<requests, stderr>>
              ELSE IF req.errors = "True"
              THEN /\ stderr' = [n |-> h.n, name |-> h.name]
                   /\ ret' = Exited("execute", Str(req.payload), h.exc_info)
                   /\ UNCHANGED requests
              ELSE /\ requests' = history_append(requests, req)
                   /\ ret' = Returned("execute", Str(req.payload), req.id)
                   /\ UNCHANGED stderr
    /\ pc' = "idle"
    /\ request' = NoRequest
    /\ workers' = <<>>
    /\ UNCHANGED <<crawler, access_role, accounts, regions, error, exc_info, queue,
                   spawned, loaded, timer>>

\* get_request returning the most recent match
get_request_last(reqs, name) ==
    LET hits == SelectSeq(reqs, LAMBDA r : r.name = name)
    IN  IF hits = <<>> THEN NoRequest ELSE hits[Len(hits)]

(* Crawler.get_request: the first request of the history with that name, or None *)
get_request(reqs, name) ==
    LET hits == SelectSeq(reqs, LAMBDA r : r.name = name)
    IN  IF hits = <<>> THEN NoRequest ELSE hits[1]

GetRequest(name) ==
    /\ crawler = "live"
    /\ pc = "idle"
    /\ ret' = Returned("get_request", Str(name), get_request(requests, name).id)
    /\ UNCHANGED <<crawler, access_role, accounts, regions, requests, error, exc_info,
                   pc, request, queue, workers, stderr, clock, spawned, executed, loaded, timer>>

ExecConfigs == {None, Str("a1")} \X {None, Str("GLOBAL")}

Init ==
    \E cfg \in ExecConfigs, c0 \in (1 - ZeroReads)..1 :
        LET c == Constructed(None, cfg[1], cfg[2])
        IN  /\ crawler = "live"
            /\ access_role = c.role
            /\ accounts = c.accounts
            /\ regions = c.regions
            /\ requests = <<>>
            /\ error = <<>>
            /\ exc_info = <<>>
            /\ pc = "idle"
            /\ request = NoRequest
            /\ queue = <<>>
            /\ workers = <<>>
            /\ ret = NoRet
            /\ stderr = NoStderr
            /\ clock = c0
            /\ spawned = 0
            /\ executed = <<>>
            /\ loaded = <<>>
            /\ timer = NewTimer
    /\ timer = NewTimer
    /\ loaded = <<>>
    /\ timer = NewTimer

DoExecute == \E p \in Payloads, tc \in 0..MaxSpawn : ExecuteCall(p, tc)
DoWorkerGet == \E i \in 1..MaxSpawn : WorkerGet(i)
DoWorkerRun == \E i \in 1..MaxSpawn : WorkerRun(i)
DoWorkerAppend == \E i \in 1..MaxSpawn : WorkerAppend(i)
DoGetRequest == \E name \in {"f", "g", "h"} : GetRequest(name)

Next == DoExecute \/ DoWorkerGet \/ DoWorkerRun \/ DoWorkerAppend \/ ExecuteFinish
           \/ DoGetRequest

Spec == Init /\ [][Next]_vars

-----------------------------------------------------------------------------
(* Crawler.load_account_credentials *)

\* what account.load_credentials(role) can do: succeed, raise a ClientError
\* with an error code, or raise another exception
LoadOutcomes ==
    {NoExc, <<"ClientError", "AccessDenied">>, <<"ClientError", "Throttling">>,
     <<"RuntimeError", "boom">>, <<"KeyError", "k">>}

IsClientError(e) == e # NoExc /\ e[1] = "ClientError"

\* get_credentials_for_account, lines 63-72: the crawler's error and exc_info
\* after account.load_credentials ended with outcome e
get_credentials_for_account(e, account, role, err, exc) ==
    IF IsClientError(e)
    THEN [error |-> <<"cannot assume role", role, account, e[2]>>, exc_info |-> exc]
    ELSE IF e # NoExc
    THEN [error |-> err, exc_info |-> e]
    ELSE [error |-> err, exc_info |-> exc]

\* the two checks of lines 79-82 in the other order
load_result_exc_first(err, exc) ==
    IF exc # <<>> THEN Raised("load_account_credentials", None, exc)
    ELSE IF err # <<>> THEN Exited("load_account_credentials", None, err)
    ELSE Returned("load_account_credentials", None, 0)

\* lines 79-82: how the call ends once queue_threads has returned
load_result(err, exc) ==
    IF err # <<>> THEN Exited("load_account_credentials", None, err)
    ELSE IF exc # <<>> THEN Raised("load_account_credentials", None, exc)
    ELSE Returned("load_account_credentials", None, 0)

\* lines 73-78: one thread per account
LoadCall ==
    /\ crawler = "live"
    /\ pc = "idle"
    /\ spawned + Len(accounts) <= MaxSpawn
    /\ pc' = "load"
    /\ queue' = [k \in 1..Len(accounts) |-> [account |-> accounts[k], region |-> ""]]
    /\ workers' = [i \in 1..Len(accounts) |-> IdleWorker]
    /\ spawned' = spawned + Len(accounts)
    /\ loaded' = <<>>
    /\ ret' = NoRet
    /\ UNCHANGED <<crawler, access_role, accounts, regions, requests, error, exc_info,
                   request, stderr, clock, executed, timer>>

\* a pool thread takes the next account (the idle thread of lowest index, as in WorkerGet)
CredGet(i) ==
    /\ pc = "load"
    /\ i \in DOMAIN workers
    /\ workers[i].pc = "idle"
    /\ \A j \in 1..(i - 1) : workers[j].pc # "idle"
    /\ queue # <<>>
    /\ workers' = [workers EXCEPT ![i].pc = "got", ![i].item = Head(queue)]
    /\ queue' = Tail(queue)
    /\ UNCHANGED <<crawler, access_role, accounts, regions, requests, error, exc_info,
                   pc, request, ret, stderr, clock, spawned, executed, loaded, timer>>

\* get_credentials_for_account on the account taken, load_credentials ending with e
CredRun(i, e) ==
    /\ pc = "load"
    /\ i \in DOMAIN workers
    /\ workers[i].pc = "got"
    /\ LET g == get_credentials_for_account(e, workers[i].item.account, access_role,
                                            error, exc_info)
       IN  /\ error' = g.error
           /\ exc_info' = g.exc_info
    /\ loaded' = Append(loaded, [account |-> workers[i].item.account, exc |-> e])
    /\ workers' = [workers EXCEPT ![i] = IdleWorker]
    /\ UNCHANGED <<crawler, access_role, accounts, regions, requests,
                   pc, request, queue, ret, stderr, clock, spawned, executed, timer>>

LoadJoined == pc = "load" /\ queue = <<>> /\ \A i \in DOMAIN workers : workers[i].pc = "idle"

LoadFinish ==
    /\ LoadJoined
    /\ ret' = load_result(error, exc_info)
    /\ pc' = "idle"
    /\ workers' = <<>>
    /\ UNCHANGED <<crawler, access_role, accounts, regions, requests, error, exc_info,
                   request, queue, stderr, clock, spawned, executed, loaded, timer>>

InitCreds ==
    \E kr \in {None, Str("Admin")}, ka \in {None, Str("a1")} :
        LET c == Constructed(kr, ka, None)
        IN  /\ crawler = "live"
            /\ access_role = c.role
            /\ accounts = c.accounts
            /\ regions = c.regions
            /\ requests = <<>>
            /\ error = <<>>
            /\ exc_info = <<>>
            /\ pc = "idle"
            /\ request = NoRequest
            /\ queue = <<>>
            /\ workers = <<>>
            /\ ret = NoRet
            /\ stderr = NoStderr
            /\ clock = 0
            /\ spawned = 0
            /\ executed = <<>>
            /\ loaded = <<>>
            /\ timer = NewTimer

DoCredGet == \E i \in 1..MaxSpawn : CredGet(i)
DoCredRun == \E i \in 1..MaxSpawn, e \in LoadOutcomes : CredRun(i, e)

NextCreds == LoadCall \/ DoCredGet \/ DoCredRun \/ LoadFinish

SpecCreds == InitCreds /\ [][NextCreds]_vars

-----------------------------------------------------------------------------
(* Properties of execute (checked under Spec) *)

\* the number of responses of rs for target (r, a)
ResponsesFor(rs, r, a) ==
    Cardinality({i \in DOMAIN rs : rs[i].region = r /\ rs[i].account = a})

\* rs holds exactly one response per (region, account) of the cross product
OnePerTarget(rs) ==
    /\ Len(rs) = Cardinality(Range(accounts)) * Cardinality(Range(regions.v))
    /\ \A a \in Range(accounts), r \in Range(regions.v) : ResponsesFor(rs, r, a) = 1

Failed(rs) == {i \in DOMAIN rs : rs[i].exc_info # NoExc}

\* the execute call that ended last
LastExecuted == executed[Len(executed)]

\* an execute call has just ended
ExecuteEnded ==
    /\ pc = "idle"
    /\ ret.op = "execute"
    /\ ret.kind \in {"return", "exit"} \/ ret.exc = <<"IndexError", "pop from empty list">>

\* C1: once all workers of an execute call have joined, the call's response list
\* holds exactly one Response per (region, account) of accounts x regions, so
\* |accounts| x |regions| Responses, whatever the thread count and interleaving.
C1_OneResponsePerTarget ==
    /\ Joined => OnePerTarget(request.responses)
    /\ \A k \in DOMAIN executed : OnePerTarget(executed[k].req.responses)

\* C1 witness: four workers have joined on 2 x 2 targets and the responses were
\* appended in another order than the targets were queued.
C1_Witness ==
    /\ Joined
    /\ Len(workers) = 4
    /\ Len(request.responses) = 4
    /\ request.responses[1].region = "us-west-2"
    /\ request.responses[1].account = "a2"

\* C2: when a payload invocation raised, the request's error flag is set once the
\* workers have joined, the call ends in the error policy, and the policy reports
\* the number of Responses with a captured failure and the payload name.
C2_ErrorPolicyCount ==
    ExecuteEnded /\ Failed(LastExecuted.req.responses) # {} =>
        /\ LastExecuted.req.errors = "True"
        /\ ret.kind = "exit"
        /\ stderr = [n |-> Cardinality(Failed(LastExecuted.req.responses)),
                     name |-> LastExecuted.req.name]

\* every payload invocation of request req succeeds
AllSucceed(req) ==
    \A a \in Range(accounts), r \in Range(regions.v) :
        payload_call(req.payload, r, a).exc = NoExc

\* C3: when every payload invocation succeeds, execute returns the request, its
\* error flag is not set, and every Response has the payload's return value as
\* output and no captured failure.
C3_AllSucceed ==
    /\ \A k \in DOMAIN executed :
        LET req == executed[k].req
        IN  AllSucceed(req) =>
              /\ req.errors # "True"
              /\ \E i \in DOMAIN requests : requests[i] = req
              /\ \A i \in DOMAIN req.responses :
                   /\ req.responses[i].exc_info = NoExc
                   /\ req.responses[i].payload_output =
                        payload_call(req.payload, req.responses[i].region,
                                     req.responses[i].account).out
    /\ ExecuteEnded /\ AllSucceed(LastExecuted.req) =>
          ret.kind = "return" /\ ret.id = LastExecuted.req.id

\* C3 witness: an execute of pOk over 2 x 2 targets on several threads has returned.
C3_Witness ==
    /\ ExecuteEnded
    /\ ret.kind = "return"
    /\ LastExecuted.req.payload = "pOk"
    /\ LastExecuted.tc > 1
    /\ Len(LastExecuted.req.responses) = 4

\* the responses of a request by content, without order and timing
Content(req) ==
    {[region |-> req.responses[i].region, account |-> req.responses[i].account,
      output |-> req.responses[i].payload_output,
      failed |-> req.responses[i].exc_info # NoExc] : i \in DOMAIN req.responses}

NumTargets == Len(accounts) * Len(regions.v)

\* C7: two execute calls of the same payload, one with thread count 1 and one with
\* thread count equal to the number of targets, produce the same Responses by
\* content.
C7_ThreadCountIrrelevant ==
    \A j, k \in DOMAIN executed :
        /\ executed[j].req.payload = executed[k].req.payload
        /\ executed[j].tc = 1
        /\ executed[k].tc = NumTargets
        => Content(executed[j].req) = Content(executed[k].req)

\* C7 witness: pFail ran over two targets once on one thread and once on two
\* threads, and the two runs appended their responses in different orders.
C7_Witness ==
    /\ Len(executed) = 2
    /\ NumTargets = 2
    /\ executed[1].req.payload = "pFail"
    /\ executed[2].req.payload = "pFail"
    /\ executed[1].tc = 1
    /\ executed[2].tc = 2
    /\ Failed(executed[2].req.responses) # {}
    /\ executed[1].req.responses[1].region # executed[2].req.responses[1].region

\* the positions of the history whose request has that name
Matches(name) == {i \in DOMAIN requests : requests[i].name = name}

\* C10: get_request(name) returns None exactly when no request of the history has
\* that name, and otherwise the earliest-appended request with that name.
C10_GetRequestFirstMatch ==
    ret.op = "get_request" =>
        LET m == Matches(ret.arg.v[1])
        IN  /\ ret.id = 0 <=> m = {}
            /\ m # {} => \E i \in m : /\ \A j \in m : i <= j
                                      /\ ret.id = requests[i].id

\* C10 witness: the history holds a request named g and then two named f, and
\* get_request("f") returned the first of the two.
C10_Witness ==
    /\ ret.op = "get_request"
    /\ ret.arg = Str("f")
    /\ Len(requests) = 3
    /\ requests[1].name = "g"
    /\ requests[2].name = "f"
    /\ requests[3].name = "f"
    /\ ret.id = requests[2].id

-----------------------------------------------------------------------------
(* Properties of the region selection (checked under SpecConfig) *)

\* C4: the region list is never empty: after construction and after every
\* update_regions call that returns it has at least one element, and
\* update_regions([]) leaves [DEFAULT_REGION].
C4_RegionsNeverEmpty ==
    /\ crawler = "live" /\ ret.kind = "return" =>
          regions.t = "list" /\ Len(regions.v) >= 1
    /\ ret.op = "update_regions" /\ ret.arg = List(<<>>) =>
          regions = List(<<DEFAULT_REGION>>)

\* C5: after construction and any update_regions calls, rejected ones included,
\* every element of regions is a known region.
C5_RegionsAllValid ==
    crawler = "live" /\ regions.t = "list" =>
        \A i \in DOMAIN regions.v : regions.v[i] \in Range(all_regions)

\* construction failed for a reason that lies in the regions option
RegionsRejected ==
    /\ crawler = "failed"
    /\ ret.exc[2] \in {"Invalid regions", "regions must be list or str"}

\* C6 as stated: the GLOBAL selector yields [DEFAULT_REGION] both for construction
\* with regions="GLOBAL" and for update_regions(["GLOBAL"]).
C6_GlobalAnyForm ==
    /\ ret.op = "__init__" /\ ret.arg = Str("GLOBAL") =>
          /\ ~RegionsRejected
          /\ crawler = "live" => regions = List(<<DEFAULT_REGION>>)
    /\ ret.op = "update_regions" /\ ret.arg = List(<<"GLOBAL">>) =>
          ret.kind = "return" /\ regions = List(<<DEFAULT_REGION>>)

\* C6 as amended: the GLOBAL selector is the string "GLOBAL": construction with
\* regions="GLOBAL" and update_regions("GLOBAL") succeed and leave
\* [DEFAULT_REGION]; update_regions(["GLOBAL"]) is rejected as an invalid region.
C6_GlobalString ==
    /\ ret.op = "__init__" /\ ret.arg = Str("GLOBAL") =>
          /\ ~RegionsRejected
          /\ crawler = "live" => regions = List(<<DEFAULT_REGION>>)
    /\ ret.op = "update_regions" /\ ret.arg = Str("GLOBAL") =>
          ret.kind = "return" /\ regions = List(<<DEFAULT_REGION>>)
    /\ ret.op = "update_regions" /\ ret.arg = List(<<"GLOBAL">>) =>
          ret = Raised("update_regions", List(<<"GLOBAL">>),
                       <<"ValueError", "Invalid regions", "GLOBAL">>)

\* C6 witness: update_regions("GLOBAL") has returned and regions is [DEFAULT_REGION].
C6_Witness ==
    /\ crawler = "live"
    /\ ret = Returned("update_regions", Str("GLOBAL"), 0)
    /\ regions = List(<<DEFAULT_REGION>>)

-----------------------------------------------------------------------------
(* Properties of load_account_credentials (checked under SpecCreds) *)

\* a load_account_credentials call has just ended
LoadEnded == pc = "idle" /\ ret.op = "load_account_credentials"

ClientErrors == {k \in DOMAIN loaded : IsClientError(loaded[k].exc)}

OtherErrors == {k \in DOMAIN loaded : loaded[k].exc # NoExc /\ ~IsClientError(loaded[k].exc)}

\* C8: when an account's credential load fails with a ClientError, the call ends in
\* sys.exit with a message naming the access role, an account whose load failed
\* that way, and that failure's error code, also when other accounts failed with
\* other exceptions.
C8_AuthErrorAborts ==
    LoadEnded /\ ClientErrors # {} =>
        /\ ret.kind = "exit"
        /\ \E k \in ClientErrors :
               ret.exc = <<"cannot assume role", access_role,
                           loaded[k].account, loaded[k].exc[2]>>

\* C8 witness: one account failed with a ClientError, then another with a
\* RuntimeError, and the call left through sys.exit.
C8_Witness ==
    /\ LoadEnded
    /\ Len(loaded) = 2
    /\ loaded[1].exc = <<"ClientError", "AccessDenied">>
    /\ loaded[2].exc = <<"RuntimeError", "boom">>
    /\ ret.kind = "exit"

\* C9: when no account fails with a ClientError and at least one fails with another
\* exception, the call raises an exception that one of its workers raised, after
\* the load of every account has been attempted.
C9_OtherErrorReraised ==
    LoadEnded /\ ClientErrors = {} /\ OtherErrors # {} =>
        /\ ret.kind = "raise"
        /\ \E k \in OtherErrors : ret.exc = loaded[k].exc
        /\ Len(loaded) = Len(accounts)

-----------------------------------------------------------------------------
(* Properties of the options' validation (checked under SpecConfig) *)

\* the identifiers of a region string or region list that are no known region
Unrecognized(arg) ==
    LET S == {i \in DOMAIN arg.v : arg.v[i] \notin Range(all_regions)}
        F[i \in 0..Len(arg.v)] ==
            IF i = 0 THEN <<>>
            ELSE IF i \in S THEN Append(F[i - 1], arg.v[i]) ELSE F[i - 1]
    IN  F[Len(arg.v)]

\* a construction or update_regions call has ended whose regions argument is a
\* string or list; for a construction, its accounts option was acceptable
RegionsCallEnded ==
    /\ ret.arg.t \in {"str", "list"}
    /\ \/ ret.op = "update_regions"
       \/ /\ ret.op = "__init__"
          /\ validate_accounts(IF Truthy(ret.acc) THEN ret.acc ELSE List(OrgAccounts)).exc = NoExc

InvalidRegionsError(arg) == <<"ValueError", "Invalid regions">> \o Unrecognized(arg)

\* C11 as stated: a region string or list holding any identifier outside the known
\* regions is rejected with an error that lists exactly the unrecognized identifiers.
C11_UnknownRegionRejected ==
    RegionsCallEnded /\ Unrecognized(ret.arg) # <<>> =>
        ret.kind = "raise" /\ ret.exc = InvalidRegionsError(ret.arg)

\* C11 as amended: the same, except for the selector string "GLOBAL" and for an
\* empty string given at construction, which are accepted.
C11_UnknownRegionListed ==
    /\ RegionsCallEnded /\ Unrecognized(ret.arg) # <<>>
         /\ ret.arg # Str("GLOBAL")
         /\ ~(ret.op = "__init__" /\ ret.arg = Str(""))
       => ret.kind = "raise" /\ ret.exc = InvalidRegionsError(ret.arg)
    /\ RegionsCallEnded /\ ret.op = "__init__" /\ ret.arg \in {Str("GLOBAL"), Str("")}
       => ret.kind = "return"

\* C11 witness: update_regions of a list with a known and an unknown region was
\* rejected, naming the unknown one only.
C11_Witness ==
    /\ ret.op = "update_regions"
    /\ ret.arg = List(<<"us-west-2", "mars-west-1">>)
    /\ ret.kind = "raise"
    /\ ret.exc = <<"ValueError", "Invalid regions", "mars-west-1">>

\* C12: construction fails whenever the accounts or the regions option is given a
\* value that is neither a string nor a list (here: a number), zero included.
C12_WrongTypeRejected ==
    ret.op = "__init__" /\ (ret.arg.t = "int" \/ ret.acc.t = "int") =>
        crawler = "failed" /\ ret.kind = "raise"

-----------------------------------------------------------------------------
(* Properties of CrawlerTimer (checked under SpecTimer) *)

\* C13: stop() on a timer that was never started leaves end_time and elapsed_time
\* unset, and start() followed by stop() leaves elapsed_time set and >= 0, whatever
\* the clock returned at start, zero included.
C13_StartStopElapsed ==
    /\ timer.start_time = -1 => timer.end_time = -1 /\ timer.elapsed_time = -1
    /\ ret.op = "stop" /\ timer.start_time # -1 =>
          timer.elapsed_time # -1 /\ timer.elapsed_time >= 0

\* C15: whenever start_time and end_time are both set, elapsed_time is set and is
\* end_time - start_time, also after a restart; elapsed_time is never set while a
\* timestamp is unset.
C15_ElapsedIsDifference ==
    /\ timer.start_time # -1 /\ timer.end_time # -1 =>
          /\ timer.elapsed_time # -1
          /\ timer.elapsed_time = timer.end_time - timer.start_time
    /\ timer.start_time = -1 \/ timer.end_time = -1 => timer.elapsed_time = -1

-----------------------------------------------------------------------------
(* Properties of the request history (checked under Spec) *)

\* C14: the history only grows: no step removes or reorders a request of
\* Crawler.requests, and every execute call that returns appends exactly one
\* request, the one it returns, at the end; no other step changes the history.
C14_HistoryGrows ==
    [][/\ Len(requests') >= Len(requests)
       /\ SubSeq(requests', 1, Len(requests)) = requests
       /\ (pc = "execute" /\ pc' = "idle" /\ ret'.kind = "return") =>
             /\ requests' = Append(requests, executed'[Len(executed')].req)
             /\ ret'.id = requests'[Len(requests')].id
       /\ requests' # requests =>
             pc = "execute" /\ pc' = "idle" /\ ret'.kind = "return"]_vars

\* C14 witness: three execute calls have ended, the second in the error policy, and
\* the history holds the requests of the first and the third, in that order.
C14_Witness ==
    /\ Len(executed) = 3
    /\ executed[2].req.errors = "True"
    /\ requests = <<executed[1].req, executed[3].req>>

\* C16: payload failures are aggregated: a captured failure does not end the call
\* (while workers are still out, the call goes on and nothing is reported), and
\* the call's outcome, the error policy included, is produced only when all
\* workers have joined and one Response per (region, account) has been appended,
\* each holding what the payload did for its target.
C16_FailuresAggregated ==
    [][/\ (pc = "execute" /\ request.errors = "True" /\ ~Joined) =>
             pc' = "execute" /\ ret' = ret /\ stderr' = stderr
       /\ (pc = "execute" /\ ret' # ret) =>
             /\ Joined
             /\ OnePerTarget(request.responses)
             /\ \A i \in DOMAIN request.responses :
                  LET r == request.responses[i]
                      res == payload_call(request.payload, r.region, r.account)
                  IN  r.exc_info = res.exc /\ r.payload_output = res.out]_vars

\* C16 witness: an execute over 2 x 2 targets ended in the error policy; the first
\* Response appended holds a failure, and Responses of payload invocations that
\* succeeded were appended after it.
C16_Witness ==
    /\ ExecuteEnded
    /\ ret.kind = "exit"
    /\ Len(LastExecuted.req.responses) = 4
    /\ LastExecuted.req.responses[1].exc_info # NoExc
    /\ LastExecuted.req.responses[4].exc_info = NoExc
    /\ LastExecuted.req.responses[4].payload_output # <<>>

\* a timer with both timestamps set
Stopped(t) == t.start_time # -1 /\ t.end_time # -1

\* C17: the timing events of an execute call are ordered: the request's timer is
\* started before any worker starts the timer of its Response, a worker has
\* stopped that timer before it appends the Response, so that every Response of
\* the response list has both timestamps set, and the request's timer is stopped
\* only after every Response was appended.
C17_TimingOrdered ==
    /\ pc = "execute" =>
          /\ request.timer.start_time # -1
          /\ request.timer.end_time = -1
          /\ \A i \in DOMAIN workers :
                /\ workers[i].pc # "idle" =>
                      request.timer.start_time <= workers[i].response.timer.start_time
                /\ workers[i].pc = "ran" => Stopped(workers[i].response.timer)
          /\ \A k \in DOMAIN request.responses : Stopped(request.responses[k].timer)
    /\ \A j \in DOMAIN executed :
          \A k \in DOMAIN executed[j].req.responses :
              /\ Stopped(executed[j].req.responses[k].timer)
              /\ executed[j].req.timer.end_time = -1 \/
                    executed[j].req.responses[k].timer.end_time <=
                        executed[j].req.timer.end_time

-----------------------------------------------------------------------------
(* Properties over several calls on one Crawler *)

\* C18: a load_account_credentials call in which the credential load of every
\* account succeeds returns normally, whatever earlier calls on the same Crawler
\* ended in.
C18_SuccessReturns ==
    LoadEnded /\ Len(loaded) = Len(accounts) /\ (\A k \in DOMAIN loaded : loaded[k].exc = NoExc)
        => ret.kind = "return"

\* C19: every request of the history is error-free: its error flag is not set and
\* none of its Responses holds a captured failure, also after execute calls that
\* ended in the error policy and were followed by further calls.
C19_HistoryErrorFree ==
    \A k \in DOMAIN requests :
        /\ requests[k].errors # "True"
        /\ Failed(requests[k].responses) = {}

\* C19 witness: an execute call ended in the error policy with failed Responses,
\* the Crawler was used again, and the history holds the second call's request only.
C19_Witness ==
    /\ Len(executed) = 2
    /\ executed[1].req.errors = "True"
    /\ Failed(executed[1].req.responses) # {}
    /\ requests = <<executed[2].req>>
    /\ Len(requests[1].responses) = NumTargets

====
